---- MODULE Spec2Model ----
(***************************************************************************)
(* Streaming bridge of backend/chat_service.py: one streamed request       *)
(* (ChatService.stream_chat_response), the driver generator it iterates    *)
(* (ChatService._stream_from_agent), and the worker thread the driver      *)
(* starts (run_agent with streaming_callback).                             *)
(*                                                                         *)
(* Time is abstracted to the one predicate the code evaluates:             *)
(* "(time.time() - t) * 1000 > TOKEN_BATCH_WINDOW_MS".  Every queued event *)
(* and the driver's last_token_time carry a bit `old` that is TRUE when    *)
(* more than the batch window has passed since the timestamp was taken;    *)
(* WindowElapses lets that much time pass.                                 *)
(***************************************************************************)
EXTENDS Integers, Sequences, FiniteSets, TLC

\* ---------------------------------------------------------------- bounds
\* events one agent call may put on the queue through its callback
MaxEvents == 6
\* calls of get_user_context one worker makes (ConcSpec)
MaxToolReads == 2

\* ------------------------------------------------------ program constants
TOKEN_BATCH_MAX_SIZE == 5
TOKEN_BATCH_WINDOW_MS == 10
QUEUE_POLL_TIMEOUT_MS == 20

\* ------------------------------------------------------------ input sets
\* the text of a fragment is never inspected by the bridge (only its
\* truthiness, line 263): the k-th event put carries the text k, so a drop, a
\* duplicate or a swap of fragments is visible in what is emitted
Fragment(k) == k
Tools == {"invoices_agent_tool"}
NoData == ""
NoTool == "None"
NoError == "None"
NoJwt == "None"
AgentErrors == {"bedrock connection reset", "boom"}
TypeErrorText == "save_message() got an unexpected keyword argument 'user_id'"
ValidationErrorText == "1 validation error for StreamChunk type Input should be 'token', 'tool_call', 'complete' or 'error'"

\* no context manager call is under study
CtxOff == [pc |-> "off"]

\* no call of retry_with_backoff is under study
RetryOff == [pc |-> "off"]

\* no cache is under study
CacheOff == [pc |-> "off"]

VARIABLES
    spc,                 \* position of stream_chat_response
    save_accepts_kwargs, \* does context_manager.save_message take user_id= / jwt_token= ?
    req_user, req_jwt,   \* request.user_id, jwt_token of the request
    full_response,       \* stream_chat_response: contents of the token chunks seen
    out,                 \* SSE chunks yielded to the client, in order
    saved,               \* messages the persistence collaborator stored
    dpc,                 \* position of _stream_from_agent
    token_buffer,        \* driver: pending fragments
    last_token_old,      \* driver: last_token_time is older than the batch window
    seen_tools,          \* driver: tool names already announced
    event_queue,         \* queue.Queue shared by worker and driver
    streaming_complete,  \* asyncio.Event set by the worker's finally
    agent_error,         \* nonlocal agent_error
    wpc,                 \* position of run_agent
    pushed,              \* history: every event the worker has put, in order
    window_expired,      \* history: the driver met an expired batch window or a poll timeout
    timed_out,           \* history: a poll timeout flushed the token buffer
    CURRENT_USER_ID,     \* os.environ['CURRENT_USER_ID']
    CURRENT_USER_JWT,    \* os.environ['CURRENT_USER_JWT']
    creq,                \* the requests of the two-request model (ConcSpec)
    ctx,                 \* the call of the context manager under study (CtxSpec)
    retry,               \* the call of retry_with_backoff under study (RetrySpec)
    cache                \* the SupabaseCache under study (CacheSpec)

vars == << spc, save_accepts_kwargs, req_user, req_jwt, full_response, out, saved,
           dpc, token_buffer, last_token_old, seen_tools, event_queue,
           streaming_complete, agent_error, wpc, pushed, window_expired, timed_out,
           CURRENT_USER_ID, CURRENT_USER_JWT, creq, ctx, retry, cache >>

reqVars == << spc, full_response, out, saved >>
drvVars == << dpc, token_buffer, last_token_old, seen_tools, window_expired, timed_out >>
wrkVars == << streaming_complete, agent_error, wpc, pushed >>
envVars == << CURRENT_USER_ID, CURRENT_USER_JWT >>
inVars  == << save_accepts_kwargs, req_user, req_jwt, creq, ctx, retry, cache >>

\* ------------------------------------------------------------- helpers
\* "kw in str(error).lower()" for the exception texts of the model
Contains(text, kw) ==
    CASE text = "bedrock connection reset" -> kw \in {"connection", "bedrock"}
      [] text = "boom" -> FALSE
      [] text = TypeErrorText -> FALSE
      [] text = ValidationErrorText -> kw \in {"validation", "token"}
      [] OTHER -> FALSE

translate_error_to_user_message(error) ==
    IF Contains(error, "connection") \/ Contains(error, "timeout")
    THEN "Unable to connect to the service. Please check your internet connection and try again."
    ELSE IF Contains(error, "auth") \/ Contains(error, "unauthorized") \/ Contains(error, "forbidden")
    THEN "Authentication failed. Please log in again."
    ELSE IF Contains(error, "rate limit") \/ Contains(error, "too many requests")
    THEN "Too many requests. Please wait a moment and try again."
    ELSE IF Contains(error, "bedrock") \/ Contains(error, "model")
    THEN "The AI service is temporarily unavailable. Please try again in a moment."
    ELSE IF Contains(error, "token") /\ Contains(error, "limit")
    THEN "Your message is too long. Please try a shorter message."
    ELSE IF Contains(error, "supabase") \/ Contains(error, "database")
    THEN "Unable to access your data. Please try again."
    ELSE IF Contains(error, "validation") \/ Contains(error, "invalid")
    THEN "Invalid input. Please check your message and try again."
    ELSE "An unexpected error occurred. Please try again."

\* the Literal of StreamChunk.type
StreamChunkTypes == {"token", "tool_call", "complete", "error"}

\* StreamChunk(type=..., content=..., error=...): pydantic validates `type`
\* against the Literal and ignores keywords that are not fields (tool_name).
StreamChunk(type, content, error) ==
    [type |-> type, content |-> content, error |-> error]

StreamChunkValid(type) == type \in StreamChunkTypes

TokenChunk(buf) == StreamChunk("token", buf, NoError)

\* variant of Flush: the buffer is joined newest fragment first
FlushNewestFirst(buf) ==
    IF buf # <<>>
    THEN << TokenChunk([i \in 1..Len(buf) |-> buf[Len(buf) + 1 - i]]) >>
    ELSE << >>

\* the flush every branch of the loop performs: the pending fragments as one chunk
Flush(buf) == IF buf # <<>> THEN << TokenChunk(buf) >> ELSE << >>

\* contents of the token chunks of a chunk sequence, concatenated
RECURSIVE TokenContent(_)
TokenContent(chunks) ==
    IF chunks = <<>> THEN <<>>
    ELSE (IF Head(chunks).type = "token" THEN Head(chunks).content ELSE <<>>)
         \o TokenContent(Tail(chunks))

\* the token chunks of a chunk sequence, one entry of full_response each
RECURSIVE TokenChunksOf(_)
TokenChunksOf(chunks) ==
    IF chunks = <<>> THEN <<>>
    ELSE (IF Head(chunks).type = "token" /\ Head(chunks).content # <<>>
          THEN << Head(chunks).content >> ELSE <<>>)
         \o TokenChunksOf(Tail(chunks))

\* "".join(parts)
RECURSIVE Join(_)
Join(parts) == IF parts = <<>> THEN <<>> ELSE Head(parts) \o Join(Tail(parts))

\* event_queue.put((type, data, time.time()))
Event(type, data) == [type |-> type, data |-> data, old |-> FALSE]

\* ------------------------------------------------------------------ Init
\* the bridge before the request starts
BridgeIdle ==
    /\ spc = "save_user"
    /\ full_response = <<>>
    /\ out = <<>>
    /\ saved = <<>>
    /\ dpc = "not_started"
    /\ token_buffer = <<>>
    /\ last_token_old = FALSE
    /\ seen_tools = {}
    /\ event_queue = <<>>
    /\ streaming_complete = FALSE
    /\ agent_error = NoError
    /\ wpc = "not_started"
    /\ pushed = <<>>
    /\ window_expired = FALSE
    /\ timed_out = FALSE

\* save_accepts_kwargs: stream_chat_response calls
\* self.context_manager.save_message(..., user_id=, jwt_token=) (149-155);
\* ContextManager.save_message (context_manager.py 276-283) declares neither
\* keyword, so with that class the call raises TypeError (FALSE).  TRUE is a
\* context manager whose save_message takes the keywords the caller passes;
\* only then does the request reach the driver.
Init ==
    /\ BridgeIdle
    /\ save_accepts_kwargs \in BOOLEAN
    /\ req_user = "u1"
    /\ req_jwt \in {"j1", NoJwt}
    /\ CURRENT_USER_ID = "u2"      \* left in os.environ by an earlier request
    /\ CURRENT_USER_JWT = "j2"
    /\ creq = << >>
    /\ ctx = CtxOff
    /\ retry = RetryOff
    /\ cache = CacheOff

\* --------------------------------------------------- stream_chat_response
\* variant of ErrorChunk: the handler forwards str(e) to the client
ErrorChunkRaw(e) == StreamChunk("error", <<>>, e)

\* except Exception as e (lines 196-205): one error chunk, then the generator ends
ErrorChunk(e) == StreamChunk("error", <<>>, translate_error_to_user_message(e))

\* variant of Deliver: full_response keeps the chunks of the latest yield only
DeliverKeepsLatest(chunks) ==
    /\ out' = out \o chunks
    /\ full_response' = IF TokenChunksOf(chunks) # <<>> THEN TokenChunksOf(chunks)
                        ELSE full_response

\* what stream_chat_response does with the chunks the driver yields (167-174)
Deliver(chunks) ==
    /\ out' = out \o chunks
    /\ full_response' = full_response \o TokenChunksOf(chunks)

\* variant of DriverRaises: the handler sends the error chunk and the
\* generator goes on to its completion chunk
DriverRaisesAndGoesOn(chunks, e) ==
    /\ out' = out \o chunks \o << ErrorChunk(e) >>
    /\ full_response' = full_response \o TokenChunksOf(chunks)
    /\ dpc' = "raised"
    /\ spc' = "complete"

\* an exception e leaves the driver after it yielded `chunks` (391-393, 196-205)
DriverRaises(chunks, e) ==
    /\ out' = out \o chunks \o << ErrorChunk(e) >>
    /\ full_response' = full_response \o TokenChunksOf(chunks)
    /\ dpc' = "raised"
    /\ spc' = "closed"

\* lines 141-155: _ensure_conversation_exists (swallows its errors), then
\* context_manager.save_message(..., user_id=, jwt_token=); save_message
\* returns the Message, or None when the store fails (context_manager 309-311)
SaveUserMessage ==
    /\ spc = "save_user"
    /\ IF save_accepts_kwargs
       THEN /\ \E stored \in BOOLEAN :
                 saved' = IF stored THEN Append(saved, [role |-> "user", content |-> <<"msg">>])
                          ELSE saved
            /\ spc' = "build_context"
            /\ out' = out
       ELSE /\ out' = Append(out, ErrorChunk(TypeErrorText))
            /\ spc' = "closed"
            /\ saved' = saved
    /\ UNCHANGED << full_response, drvVars, event_queue, wrkVars, envVars, inVars >>

\* lines 157-164: build_context never raises (context_manager 106-109)
BuildContext ==
    /\ spc = "build_context"
    /\ spc' = "stream"
    /\ UNCHANGED << full_response, out, saved, drvVars, event_queue, wrkVars, envVars, inVars >>

\* variant of SaveAssistantMessage: the turn is written once by the
\* generator and once more by a completion hook
SaveAssistantMessageTwice ==
    /\ spc = "save_assistant"
    /\ saved' = IF full_response # <<>>
                THEN saved \o << [role |-> "assistant", content |-> Join(full_response)],
                                 [role |-> "assistant", content |-> Join(full_response)] >>
                ELSE saved
    /\ spc' = "complete"
    /\ UNCHANGED << full_response, out, drvVars, event_queue, wrkVars, envVars, inVars >>

\* lines 176-185
SaveAssistantMessage ==
    /\ spc = "save_assistant"
    /\ IF full_response # <<>>
       THEN \E stored \in BOOLEAN :
              saved' = IF stored
                       THEN Append(saved, [role |-> "assistant",
                                           content |-> Join(full_response)])
                       ELSE saved
       ELSE saved' = saved
    /\ spc' = "complete"
    /\ UNCHANGED << full_response, out, drvVars, event_queue, wrkVars, envVars, inVars >>

\* lines 187-194
SendCompletion ==
    /\ spc = "complete"
    /\ out' = Append(out, StreamChunk("complete", <<>>, NoError))
    /\ spc' = "closed"
    /\ UNCHANGED << full_response, saved, drvVars, event_queue, wrkVars, envVars, inVars >>

\* variant of Disconnect: the cancellation is handled like any exception and
\* an error chunk is sent
DisconnectAsError ==
    /\ spc \in {"save_user", "build_context", "stream", "save_assistant", "complete"}
    /\ spc' = "cancelled"
    /\ dpc' = IF dpc \in {"loop", "join"} THEN "cancelled" ELSE dpc
    /\ out' = Append(out, ErrorChunk("boom"))
    /\ UNCHANGED << full_response, saved, token_buffer, last_token_old, seen_tools,
                    window_expired, timed_out, event_queue, wrkVars, envVars, inVars >>

\* the client goes away: CancelledError / GeneratorExit are BaseException, so
\* neither `except Exception` (196, 391) handles them; 388-390 re-raises
Disconnect ==
    /\ spc \in {"save_user", "build_context", "stream", "save_assistant", "complete"}
    /\ spc' = "cancelled"
    /\ dpc' = IF dpc \in {"loop", "join"} THEN "cancelled" ELSE dpc
    /\ UNCHANGED << full_response, out, saved, token_buffer, last_token_old, seen_tools,
                    window_expired, timed_out, event_queue, wrkVars, envVars, inVars >>

\* ------------------------------------------------------ _stream_from_agent
\* lines 241-249: os.environ is the process environment, one for all requests
PublishUser(user_id, jwt_token) ==
    /\ CURRENT_USER_ID' = user_id
    /\ CURRENT_USER_JWT' = IF jwt_token # NoJwt THEN jwt_token
                           ELSE IF CURRENT_USER_JWT # NoJwt THEN NoJwt
                           ELSE CURRENT_USER_JWT

\* supervisor.get_user_context(): os.environ.get of both variables
get_user_context == << CURRENT_USER_ID, CURRENT_USER_JWT >>

\* variant of DriverStart: the driver enters its loop without handing
\* run_agent to the executor
DriverStartWithoutWorker ==
    /\ spc = "stream" /\ dpc = "not_started"
    /\ PublishUser(req_user, req_jwt)
    /\ dpc' = "loop"
    /\ seen_tools' = {}
    /\ token_buffer' = <<>>
    /\ last_token_old' = FALSE
    /\ window_expired' = FALSE
    /\ timed_out' = FALSE
    /\ UNCHANGED << reqVars, event_queue, wrkVars, inVars >>

\* lines 239-295: publish the user in os.environ, start run_agent in the executor
DriverStart ==
    /\ spc = "stream" /\ dpc = "not_started"
    /\ PublishUser(req_user, req_jwt)
    /\ wpc' = "running"
    /\ dpc' = "loop"
    /\ seen_tools' = {}
    /\ token_buffer' = <<>>
    /\ last_token_old' = FALSE
    /\ window_expired' = FALSE
    /\ timed_out' = FALSE
    /\ UNCHANGED << reqVars, event_queue, streaming_complete, agent_error, pushed, inVars >>

\* variant of should_flush: the size test is strict
should_flush_above_max(buf, old) == Len(buf) > TOKEN_BATCH_MAX_SIZE \/ old

\* lines 309-312
should_flush(buf, old) == Len(buf) >= TOKEN_BATCH_MAX_SIZE \/ old

\* lines 303-322
DriverToken ==
    /\ spc = "stream" /\ dpc = "loop"
    /\ event_queue # <<>> /\ Head(event_queue).type = "token"
    /\ LET ev == Head(event_queue)
           buf == Append(token_buffer, ev.data)
       IN  /\ event_queue' = Tail(event_queue)
           /\ window_expired' = (window_expired \/ ev.old)
           /\ IF should_flush(buf, ev.old)
              THEN /\ Deliver(Flush(buf))
                   /\ token_buffer' = <<>>
                   /\ last_token_old' = FALSE
              ELSE /\ Deliver(<<>>)
                   /\ token_buffer' = buf
                   /\ last_token_old' = ev.old
    /\ UNCHANGED << spc, saved, dpc, seen_tools, timed_out, wrkVars, envVars, inVars >>

\* lines 324-343
DriverToolStart ==
    /\ spc = "stream" /\ dpc = "loop"
    /\ event_queue # <<>> /\ Head(event_queue).type = "tool_start"
    /\ LET ev == Head(event_queue)
           tool_name == ev.data
           announce == tool_name # NoTool /\ tool_name \notin seen_tools
       IN  /\ event_queue' = Tail(event_queue)
           /\ token_buffer' = <<>>
           /\ last_token_old' = FALSE
           /\ seen_tools' = IF announce THEN seen_tools \cup {tool_name} ELSE seen_tools
           /\ IF announce /\ ~StreamChunkValid("tool_start")
              THEN DriverRaises(Flush(token_buffer), ValidationErrorText)
              ELSE /\ Deliver(Flush(token_buffer) \o
                              (IF announce THEN << StreamChunk("tool_start", <<>>, NoError) >>
                               ELSE <<>>))
                   /\ UNCHANGED << spc, dpc >>
    /\ UNCHANGED << saved, window_expired, timed_out, wrkVars, envVars, inVars >>

\* variant of DriverError: raises without flushing the pending tokens
DriverErrorDropsBuffer ==
    /\ spc = "stream" /\ dpc = "loop"
    /\ event_queue # <<>> /\ Head(event_queue).type = "error"
    /\ event_queue' = Tail(event_queue)
    /\ token_buffer' = <<>>
    /\ last_token_old' = FALSE
    /\ DriverRaises(<<>>, Head(event_queue).data)
    /\ UNCHANGED << saved, window_expired, timed_out, seen_tools, wrkVars, envVars, inVars >>

\* lines 344-354
DriverError ==
    /\ spc = "stream" /\ dpc = "loop"
    /\ event_queue # <<>> /\ Head(event_queue).type = "error"
    /\ event_queue' = Tail(event_queue)
    /\ token_buffer' = <<>>
    /\ last_token_old' = FALSE
    /\ DriverRaises(Flush(token_buffer), Head(event_queue).data)
    /\ UNCHANGED << saved, window_expired, timed_out, seen_tools, wrkVars, envVars, inVars >>

\* variant of DriverDone: the loop is left without flushing the buffer
DriverDoneBreaksUnflushed ==
    /\ spc = "stream" /\ dpc = "loop"
    /\ event_queue # <<>> /\ Head(event_queue).type = "done"
    /\ event_queue' = Tail(event_queue)
    /\ dpc' = "join"
    /\ UNCHANGED << reqVars, token_buffer, last_token_old, window_expired, timed_out, seen_tools,
                    wrkVars, envVars, inVars >>

\* lines 355-365: flush, break; the generator is then at `await agent_task`
DriverDone ==
    /\ spc = "stream" /\ dpc = "loop"
    /\ event_queue # <<>> /\ Head(event_queue).type = "done"
    /\ event_queue' = Tail(event_queue)
    /\ token_buffer' = <<>>
    /\ last_token_old' = FALSE
    /\ Deliver(Flush(token_buffer))
    /\ dpc' = "join"
    /\ UNCHANGED << spc, saved, window_expired, timed_out, seen_tools, wrkVars, envVars, inVars >>

\* variant of DriverPoll: a timeout only sleeps, the buffer waits for the
\* next event
DriverPollSleepsOnly ==
    /\ spc = "stream" /\ dpc = "loop"
    /\ event_queue = <<>>
    /\ IF streaming_complete
       THEN /\ dpc' = "join"
            /\ UNCHANGED << token_buffer, last_token_old, window_expired, timed_out, full_response, out >>
       ELSE /\ Deliver(<<>>)
            /\ UNCHANGED << token_buffer, last_token_old, window_expired, timed_out >>
            /\ dpc' = dpc
    /\ UNCHANGED << spc, saved, seen_tools, event_queue, wrkVars, envVars, inVars >>

\* the queue is empty at the top of the loop (298-301, 367-380): either the
\* loop condition is false and the loop is left, or get() times out after
\* QUEUE_POLL_TIMEOUT, which is longer than the batch window
DriverPoll ==
    /\ spc = "stream" /\ dpc = "loop"
    /\ event_queue = <<>>
    /\ IF streaming_complete
       THEN /\ dpc' = "join"
            /\ UNCHANGED << token_buffer, last_token_old, window_expired, timed_out, full_response, out >>
       ELSE LET aged == last_token_old \/ QUEUE_POLL_TIMEOUT_MS > TOKEN_BATCH_WINDOW_MS
            IN  /\ IF token_buffer # <<>> /\ aged
                   THEN /\ Deliver(Flush(token_buffer))
                        /\ token_buffer' = <<>>
                        /\ last_token_old' = FALSE
                        /\ window_expired' = TRUE
                        /\ timed_out' = TRUE
                   ELSE /\ Deliver(<<>>)
                        /\ UNCHANGED << token_buffer, last_token_old, window_expired, timed_out >>
                /\ dpc' = dpc
    /\ UNCHANGED << spc, saved, seen_tools, event_queue, wrkVars, envVars, inVars >>

\* lines 382-386: await agent_task, then re-raise what the worker recorded
DriverJoin ==
    /\ spc = "stream" /\ dpc = "join"
    /\ wpc = "exited"
    /\ IF agent_error # NoError
       THEN DriverRaises(<<>>, agent_error)
       ELSE /\ dpc' = "returned"
            /\ spc' = "save_assistant"
            /\ UNCHANGED << full_response, out >>
    /\ UNCHANGED << saved, token_buffer, last_token_old, seen_tools, window_expired, timed_out,
                    event_queue, wrkVars, envVars, inVars >>

\* ------------------------------------------------------------- run_agent
\* lines 256-269: one call of streaming_callback(data=..., current_tool_use=...)
WorkerCallback ==
    /\ wpc = "running"
    /\ \E has_data \in BOOLEAN, tool \in Tools \cup {NoTool} :
         LET data == Fragment(Len(pushed) + 1)
             evs == (IF has_data THEN << Event("token", data) >> ELSE <<>>)
                    \o (IF tool # NoTool THEN << Event("tool_start", tool) >> ELSE <<>>)
         IN  /\ evs # <<>>
             /\ Len(pushed) + Len(evs) <= MaxEvents
             /\ event_queue' = event_queue \o evs
             /\ pushed' = pushed \o evs
    /\ UNCHANGED << reqVars, drvVars, streaming_complete, agent_error, wpc, envVars, inVars >>

\* lines 277-278: the agent call returns
AgentReturns ==
    /\ wpc = "running"
    /\ event_queue' = Append(event_queue, Event("done", NoData))
    /\ pushed' = Append(pushed, Event("done", NoData))
    /\ wpc' = "finally"
    /\ UNCHANGED << reqVars, drvVars, streaming_complete, agent_error, envVars, inVars >>

\* variant of AgentRaises: the exception ends the thread, nothing is put on
\* the queue and streaming_complete is never set
AgentRaisesUnsignalled ==
    /\ wpc = "running"
    /\ \E e \in AgentErrors : agent_error' = e
    /\ wpc' = "exited"
    /\ UNCHANGED << reqVars, drvVars, event_queue, streaming_complete, pushed, envVars, inVars >>

\* lines 279-281: create_supervisor_agent or the agent call raises
AgentRaises ==
    /\ wpc = "running"
    /\ \E e \in AgentErrors :
         /\ agent_error' = e
         /\ event_queue' = Append(event_queue, Event("error", e))
         /\ pushed' = Append(pushed, Event("error", e))
    /\ wpc' = "finally"
    /\ UNCHANGED << reqVars, drvVars, streaming_complete, envVars, inVars >>

\* variant of WorkerFinally: done is put in the finally block, after an
\* error event too
WorkerFinallyPutsDone ==
    /\ wpc = "finally"
    /\ streaming_complete' = TRUE
    /\ wpc' = "exited"
    /\ event_queue' = Append(event_queue, Event("done", NoData))
    /\ pushed' = Append(pushed, Event("done", NoData))
    /\ UNCHANGED << reqVars, drvVars, agent_error, envVars, inVars >>

\* lines 282-283
WorkerFinally ==
    /\ wpc = "finally"
    /\ streaming_complete' = TRUE
    /\ wpc' = "exited"
    /\ UNCHANGED << reqVars, drvVars, event_queue, agent_error, pushed, envVars, inVars >>

\* ------------------------------------------------------------------ time
\* more than TOKEN_BATCH_WINDOW_MS passes: every timestamp taken so far is old
WindowElapses ==
    /\ dpc = "loop"
    /\ \/ \E i \in 1..Len(event_queue) : ~event_queue[i].old
       \/ token_buffer # <<>> /\ ~last_token_old
    /\ event_queue' = [i \in 1..Len(event_queue) |-> [event_queue[i] EXCEPT !.old = TRUE]]
    /\ last_token_old' = (token_buffer # <<>>)
    /\ UNCHANGED << reqVars, dpc, token_buffer, seen_tools, window_expired, timed_out, wrkVars,
                    envVars, inVars >>

Next ==
    \/ SaveUserMessage
    \/ BuildContext
    \/ SaveAssistantMessage
    \/ SendCompletion
    \/ Disconnect
    \/ DriverStart
    \/ DriverToken
    \/ DriverToolStart
    \/ DriverError
    \/ DriverDone
    \/ DriverPoll
    \/ DriverJoin
    \/ WorkerCallback
    \/ AgentReturns
    \/ AgentRaises
    \/ WorkerFinally
    \/ WindowElapses

Spec == Init /\ [][Next]_vars

\* ------------------------------------------------- fair scheduling of one request
\* the asyncio task that runs stream_chat_response and the driver it iterates
TaskStep ==
    \/ SaveUserMessage
    \/ BuildContext
    \/ SaveAssistantMessage
    \/ SendCompletion
    \/ DriverStart
    \/ DriverToken
    \/ DriverToolStart
    \/ DriverError
    \/ DriverDone
    \/ DriverPoll
    \/ DriverJoin

\* the executor thread that runs run_agent
WorkerStep ==
    \/ WorkerCallback
    \/ AgentReturns
    \/ AgentRaises
    \/ WorkerFinally

\* the consumer keeps reading: no Disconnect
NextLive == TaskStep \/ WorkerStep \/ WindowElapses

\* the event loop keeps running the task, the executor keeps running the
\* thread, and the agent call comes to an end
LiveSpec ==
    /\ Init
    /\ [][NextLive]_vars
    /\ WF_vars(TaskStep)
    /\ WF_vars(AgentReturns \/ AgentRaises \/ WorkerFinally)

\* the event loop keeps running the task, but the agent call may stay quiet
\* for ever: nothing obliges the worker to put another event
QuietSpec ==
    /\ Init
    /\ [][NextLive]_vars
    /\ WF_vars(TaskStep)

\* ------------------------------------- two requests in one process (ConcSpec)
ConcReqs == {1, 2}

ReqUser(r) == IF r = 1 THEN "u1" ELSE "u2"
ReqJwt(r) == IF r = 1 THEN "j1" ELSE "j2"
Unread == "unread"

ConcInit ==
    /\ BridgeIdle
    /\ save_accepts_kwargs = TRUE
    /\ req_user = "u1"
    /\ req_jwt = NoJwt
    /\ CURRENT_USER_ID = NoJwt
    /\ CURRENT_USER_JWT = NoJwt
    /\ \E js \in [ConcReqs -> BOOLEAN] :
         creq = [r \in ConcReqs |->
                   [pc |-> "new", user_id |-> ReqUser(r),
                    jwt_token |-> IF js[r] THEN ReqJwt(r) ELSE NoJwt,
                    tool_saw |-> << Unread, Unread >>, reads |-> 0]]
    /\ ctx = CtxOff
    /\ retry = RetryOff
    /\ cache = CacheOff

bridgeVars == << reqVars, drvVars, event_queue, wrkVars,
                 save_accepts_kwargs, req_user, req_jwt, ctx, retry, cache >>

\* request r reaches lines 241-249 of _stream_from_agent and starts its worker
ConcPublish(r) ==
    /\ creq[r].pc = "new"
    /\ PublishUser(creq[r].user_id, creq[r].jwt_token)
    /\ creq' = [creq EXCEPT ![r].pc = "running"]
    /\ UNCHANGED bridgeVars

\* a tool running in r's worker thread asks for the user context
ConcToolRead(r) ==
    /\ creq[r].pc = "running"
    /\ creq[r].reads < MaxToolReads
    /\ creq' = [creq EXCEPT ![r].tool_saw = get_user_context,
                            ![r].reads = @ + 1]
    /\ UNCHANGED << bridgeVars, envVars >>

\* r's agent call ends and its stream is closed
ConcFinish(r) ==
    /\ creq[r].pc = "running"
    /\ creq' = [creq EXCEPT ![r].pc = "finished"]
    /\ UNCHANGED << bridgeVars, envVars >>

ConcNext ==
    \E r \in ConcReqs :
        \/ ConcPublish(r)
        \/ ConcToolRead(r)
        \/ ConcFinish(r)

ConcSpec == ConcInit /\ [][ConcNext]_vars

\* ============================================ backend/context_manager.py
\* The context window manager is sequential code over a message list; it is
\* modelled as operators, and CtxSpec applies them to histories drawn from
\* Histories.  A message content is a length and the pieces of its text;
\* a string built by the code is the sequence of the pieces concatenated.

\* longest history drawn
MaxTurns == 12

\* context_manager.py 30-34 and the .get default of line 51
TOKEN_LIMITS(id) ==
    CASE id = "amazon.nova-lite-v1:0" -> 300000
      [] id = "amazon.nova-pro-v1:0" -> 300000
      [] id = "anthropic.claude-3-haiku-20240307-v1:0" -> 200000
      [] OTHER -> 200000

\* config.py 136: the default of settings.bedrock_model_id
bedrock_model_id == "amazon.nova-lite-v1:0"

\* context_manager.py 50-51
token_limit == TOKEN_LIMITS(bedrock_model_id)

CHARS_PER_TOKEN == 4

PRESERVE_RECENT_MESSAGES == 10

\* models.py 24-31 (timestamp and agent_type are not read by the code modelled)
Message(id, content, role, metadata) ==
    [id |-> id, content |-> content, role |-> role, metadata |-> metadata]

\* an entry of metadata["toolCalls"]: a dict with a name, a dict without
\* one, or a value that is no dict
NoName == "no name"
NotADict == "not a dict"

\* the values of metadata["toolCalls"] drawn; << >> stands for no metadata,
\* no "toolCalls" key, or an empty list
ToolCallLists ==
    { << "invoices_agent_tool", "clients_agent_tool" >>,
      << "invoices_agent_tool", "invoices_agent_tool" >>,
      << NoName >>,
      << NotADict >> }

\* content lengths: every turn has ShortLen characters but one, which has one
\* of SpecialLens; with token_limit = 300000 the estimate passes the limit
\* when the sum of lengths reaches 1000004
ShortLen == 4
SpecialLens == {200, 999960, 1000000}

\* a history of n turns, user and assistant alternating; turn `at` has the
\* special length len, turn `tc_at` carries the tool calls tc
History(n, at, len, tc_at, tc) ==
    [i \in 1..n |->
        Message("msg_" \o ToString(i),
                [text |-> << "text" \o ToString(i) >>,
                 len |-> IF i = at THEN len ELSE ShortLen],
                IF i % 2 = 1 THEN "user" ELSE "assistant",
                [is_summary |-> FALSE,
                 toolCalls |-> IF i = tc_at THEN tc ELSE << >>])]

Histories ==
    { History(n, at, len, tc_at, tc) :
        n \in 0..MaxTurns, at \in 0..MaxTurns, len \in SpecialLens,
        tc_at \in 0..MaxTurns, tc \in ToolCallLists }

\* sum(len(msg.content) for msg in messages), line 184
RECURSIVE TotalChars(_)
TotalChars(messages) ==
    IF messages = << >> THEN 0
    ELSE Head(messages).content.len + TotalChars(Tail(messages))

\* lines 186-190: total_chars // CHARS_PER_TOKEN, then int(estimate * 1.2).
\* The double product truncates to (12 * estimate) \div 10 for every
\* estimate below 2000000, which covers the lengths drawn here.
EstimatedTokens(messages) ==
    ((TotalChars(messages) \div CHARS_PER_TOKEN) * 12) \div 10

\* variant of _exceeds_token_limit: an estimate equal to the limit exceeds it
_exceeds_token_limit_at_limit(messages) ==
    IF messages = << >> THEN FALSE
    ELSE EstimatedTokens(messages) >= token_limit

\* lines 170-197
_exceeds_token_limit(messages) ==
    IF messages = << >> THEN FALSE
    ELSE EstimatedTokens(messages) > token_limit

\* ---------------------------------------------------------------- strings
\* a string literal of n characters
Str(piece, n) == [text |-> << piece >>, len |-> n]

EmptyStr == [text |-> << >>, len |-> 0]

\* a + b
Cat(a, b) == [text |-> a.text \o b.text, len |-> a.len + b.len]

\* sep.join(items)
RECURSIVE JoinStr(_, _)
JoinStr(sep, items) ==
    IF items = << >> THEN EmptyStr
    ELSE IF Len(items) = 1 THEN Head(items)
    ELSE Cat(Cat(Head(items), sep), JoinStr(sep, Tail(items)))

\* s[:5]
First5(s) == SubSeq(s, 1, IF Len(s) < 5 THEN Len(s) ELSE 5)

\* content[:200] (line 231)
Prefix200(content) ==
    IF content.len <= 200 THEN content
    ELSE [text |-> << "[:200] of" >> \o content.text, len |-> 200]

\* ------------------------------------------------------ _summarize_context
\* variant of RecentMessages: one turn more than PRESERVE_RECENT_MESSAGES
RecentMessagesOneMore(messages) ==
    SubSeq(messages,
           IF Len(messages) > PRESERVE_RECENT_MESSAGES + 1
           THEN Len(messages) - PRESERVE_RECENT_MESSAGES ELSE 1,
           Len(messages))

\* messages[-self.PRESERVE_RECENT_MESSAGES:] (lines 219 and 274)
RecentMessages(messages) ==
    SubSeq(messages,
           IF Len(messages) > PRESERVE_RECENT_MESSAGES
           THEN Len(messages) - PRESERVE_RECENT_MESSAGES + 1 ELSE 1,
           Len(messages))

\* messages[:-self.PRESERVE_RECENT_MESSAGES] (line 218)
OldMessages(messages) ==
    SubSeq(messages, 1, Len(messages) - PRESERVE_RECENT_MESSAGES)

\* lines 229-232: the user requests of the old messages
RECURSIVE UserRequests(_)
UserRequests(old) ==
    IF old = << >> THEN << >>
    ELSE (IF Head(old).role = "user"
          THEN << IF Head(old).content.len < 200
                  THEN Head(old).content
                  ELSE Cat(Prefix200(Head(old).content), Str("...", 3)) >>
          ELSE << >>)
         \o UserRequests(Tail(old))

\* tool_call.get('name', 'unknown') (line 240)
ToolCallName(tool_call) ==
    CASE tool_call = "invoices_agent_tool" -> Str("invoices_agent_tool", 19)
      [] tool_call = "clients_agent_tool" -> Str("clients_agent_tool", 18)
      [] OTHER -> Str("unknown", 7)

\* lines 234-241: one "<name> action" for each tool call of the old
\* assistant messages
RECURSIVE AgentActions(_)
AgentActions(old) ==
    IF old = << >> THEN << >>
    ELSE (IF Head(old).role = "assistant"
          THEN [k \in 1..Len(Head(old).metadata.toolCalls) |->
                   Cat(ToolCallName(Head(old).metadata.toolCalls[k]), Str(" action", 7))]
          ELSE << >>)
         \o AgentActions(Tail(old))

\* line 240 raises AttributeError on an entry that is no dict
SummarizeRaises(old) ==
    \E i \in 1..Len(old) :
        /\ old[i].role = "assistant"
        /\ \E k \in 1..Len(old[i].metadata.toolCalls) :
               old[i].metadata.toolCalls[k] = NotADict

\* the iteration order of a Python set of str depends on the hash seed of
\* the interpreter process (PYTHONHASHSEED is random unless set); two seeds
\* are drawn, one listing the elements in the order of ActionRank and one
\* in the opposite order
HashSeeds == {1, 2}

ActionRank(a) ==
    CASE a.text[1] = "clients_agent_tool" -> 1
      [] a.text[1] = "invoices_agent_tool" -> 2
      [] OTHER -> 3

RECURSIVE SetIteration(_, _)
SetIteration(S, hash_seed) ==
    IF S = {} THEN << >>
    ELSE LET x == CHOOSE x \in S : \A y \in S :
                     IF hash_seed = 1 THEN ActionRank(x) <= ActionRank(y)
                                      ELSE ActionRank(x) >= ActionRank(y)
         IN  << x >> \o SetIteration(S \ {x}, hash_seed)

Range(s) == { s[i] : i \in 1..Len(s) }

\* lines 222-259: the text of the summary
SummaryContent(old, hash_seed) ==
    LET user_requests == UserRequests(old)
        agent_actions == AgentActions(old)
        summary_parts ==
            << Str("Summary of earlier conversation:", 32) >>
            \o (IF user_requests # << >>
                THEN << Cat(Str("User asked about: ", 18),
                            JoinStr(Str(", ", 2), First5(user_requests))) >>
                ELSE << >>)
            \o (IF agent_actions # << >>
                THEN << Cat(Str("Actions taken: ", 15),
                            JoinStr(Str(", ", 2),
                                    SetIteration(Range(First5(agent_actions)), hash_seed))) >>
                ELSE << >>)
    IN  JoinStr(Str("\n", 1), summary_parts)

\* lines 262-268
SummaryMessage(old, hash_seed) ==
    Message("summary", SummaryContent(old, hash_seed), "assistant",
            [is_summary |-> TRUE, toolCalls |-> << >>])

\* variant of _summarize_context: a failure while summarizing leaves no
\* history at all
_summarize_context_empty_on_error(messages, hash_seed) ==
    IF Len(messages) <= PRESERVE_RECENT_MESSAGES THEN messages
    ELSE IF SummarizeRaises(OldMessages(messages)) THEN << >>
    ELSE << SummaryMessage(OldMessages(messages), hash_seed) >> \o RecentMessages(messages)

\* lines 199-274: the early return of 212-214, the try block, and the
\* except branch that returns the recent messages alone
_summarize_context(messages, hash_seed) ==
    IF Len(messages) <= PRESERVE_RECENT_MESSAGES THEN messages
    ELSE IF SummarizeRaises(OldMessages(messages)) THEN RecentMessages(messages)
    ELSE << SummaryMessage(OldMessages(messages), hash_seed) >> \o RecentMessages(messages)

\* ------------------------------------------------------------ build_context
\* conversation_service.py 219-262: the newest `limit` messages of the
\* conversation, in chronological order
get_recent_messages(stored, limit) ==
    SubSeq(stored, IF Len(stored) > limit THEN Len(stored) - limit + 1 ELSE 1, Len(stored))

\* lines 111-150: a failing store is logged and yields []
_load_conversation_history(request) ==
    IF request.load_ok
    THEN get_recent_messages(request.stored, PRESERVE_RECENT_MESSAGES * 2)
    ELSE << >>

\* lines 152-168
_get_user_profile(user_id) ==
    Cat(Cat(Str("User ID: ", 9), Str(user_id, 2)),
        Str("\nBusiness Type: Painting Contractor", 36))

\* variant of ContextHistory: every history is summarized, within the
\* limit or not
ContextHistoryAlwaysSummarized(request) ==
    LET history == IF request.history = << >>
                   THEN _load_conversation_history(request)
                   ELSE request.history
    IN  _summarize_context(history, request.hash_seed)

\* lines 74-84: the history whose turns go into the context
ContextHistory(request) ==
    LET history == IF request.history = << >>
                   THEN _load_conversation_history(request)
                   ELSE request.history
    IN  IF _exceeds_token_limit(history)
        THEN _summarize_context(history, request.hash_seed)
        ELSE history

\* variant of ContextLine: the stored role is the label
ContextLineStoredRole(msg) ==
    Cat(IF msg.role = "user" THEN Str("user: ", 6) ELSE Str("assistant: ", 11),
        msg.content)

\* lines 98-99
ContextLine(msg) ==
    Cat(IF msg.role = "user" THEN Str("User: ", 6) ELSE Str("Assistant: ", 11),
        msg.content)

\* lines 86-101; the except branch of 106-109 is not reached, each step
\* that can fail handles its own exception
build_context(request) ==
    LET history == ContextHistory(request)
        context_parts ==
            (IF request.include_user_profile
             THEN << _get_user_profile(request.user_id) >> ELSE << >>)
            \o (IF history # << >>
                THEN << Str("Previous conversation:", 22) >>
                     \o [i \in 1..Len(history) |-> ContextLine(history[i])]
                ELSE << >>)
    IN  JoinStr(Str("\n", 1), context_parts)

\* ------------------------------------------------- the prompt of a request
\* request.message, and the row conversation_service.save_message inserts
\* for it (chat_service.py 149-155)
NewMessage == Str("message", 7)

StoredUserTurn ==
    Message("msg_new", NewMessage, "user", [is_summary |-> FALSE, toolCalls |-> << >>])

\* chat_service.py 161
context_with_user(user_id, context) ==
    Cat(Cat(Cat(Str("[SYSTEM: User ID is ", 20), Str(user_id, 2)), Str("]\n\n", 3)),
        context)

\* chat_service.py 239
full_prompt(context, message) ==
    IF context.len > 0
    THEN Cat(Cat(Cat(context, Str("\n\n", 2)), Str("User: ", 6)), message)
    ELSE message

\* where build_context gets the history from: the request carries it, or
\* the request carries none and the store returns it, or the store fails
HistorySources == {"request", "stored", "load_fails"}

ChatRequest(history, source, include_user_profile, hash_seed) ==
    [history |-> IF source = "request" THEN history ELSE << >>,
     stored |-> IF source = "request" THEN << >> ELSE history,
     load_ok |-> source # "load_fails",
     user_id |-> "u1",
     include_user_profile |-> include_user_profile,
     hash_seed |-> hash_seed]

NoRequest == ChatRequest(<< >>, "request", FALSE, 1)

\* ------------------------------------------------------------------ CtxSpec
CtxInput(h) ==
    [pc |-> "input", history |-> h, exceeds |-> FALSE, summarized |-> << >>,
     request |-> NoRequest, used |-> << >>, context |-> EmptyStr, context2 |-> EmptyStr,
     prompt |-> EmptyStr]

CtxInit ==
    /\ BridgeIdle
    /\ save_accepts_kwargs = TRUE
    /\ req_user = "u1"
    /\ req_jwt = NoJwt
    /\ CURRENT_USER_ID = NoJwt
    /\ CURRENT_USER_JWT = NoJwt
    /\ creq = << >>
    /\ \E h \in Histories : ctx = CtxInput(h)
    /\ retry = RetryOff
    /\ cache = CacheOff

notCtxVars == << reqVars, drvVars, event_queue, wrkVars, envVars,
                 save_accepts_kwargs, req_user, req_jwt, creq, retry, cache >>

\* a call of _exceeds_token_limit(history)
CtxExceeds ==
    /\ ctx.pc = "input"
    /\ ctx' = [ctx EXCEPT !.pc = "checked",
                          !.exceeds = _exceeds_token_limit(ctx.history)]
    /\ UNCHANGED notCtxVars

\* a call of _summarize_context(history) in a process with some hash seed
CtxSummarize ==
    /\ ctx.pc = "input"
    /\ \E hash_seed \in HashSeeds :
         ctx' = [ctx EXCEPT !.pc = "summarized",
                            !.summarized = _summarize_context(ctx.history, hash_seed)]
    /\ UNCHANGED notCtxVars

\* a call of build_context(request)
CtxBuild ==
    /\ ctx.pc = "input"
    /\ \E source \in HistorySources, include_user_profile \in BOOLEAN,
          hash_seed \in HashSeeds :
         LET request == ChatRequest(ctx.history, source, include_user_profile, hash_seed)
         IN  ctx' = [ctx EXCEPT !.pc = "built",
                                !.request = request,
                                !.used = ContextHistory(request),
                                !.context = build_context(request)]
    /\ UNCHANGED notCtxVars

\* a second call of build_context with the same history and profile, in a
\* process with some hash seed
CtxBuildAgain ==
    /\ ctx.pc = "built"
    /\ \E hash_seed \in HashSeeds :
         ctx' = [ctx EXCEPT !.pc = "rebuilt",
                            !.context2 = build_context([ctx.request EXCEPT
                                                          !.hash_seed = hash_seed])]
    /\ UNCHANGED notCtxVars

\* chat_service.py 148-161 and 239, for a conversation whose store holds
\* ctx.history: the user turn is saved (or the save fails and returns
\* None), then build_context(request) loads or takes the history, and the
\* prompt is put together from the context and request.message
CtxPrompt ==
    /\ ctx.pc = "input"
    /\ save_accepts_kwargs
    /\ \E source \in HistorySources, user_saved \in BOOLEAN, hash_seed \in HashSeeds :
         LET before == ChatRequest(ctx.history, source, TRUE, hash_seed)
             request == [before EXCEPT
                           !.stored = IF user_saved THEN Append(@, StoredUserTurn) ELSE @]
         IN  ctx' = [ctx EXCEPT !.pc = "prompted",
                                !.request = request,
                                !.used = ContextHistory(request),
                                !.context = build_context(request),
                                !.prompt = full_prompt(
                                    context_with_user(request.user_id, build_context(request)),
                                    NewMessage)]
    /\ UNCHANGED notCtxVars

CtxNext ==
    \/ CtxExceeds
    \/ CtxSummarize
    \/ CtxBuild
    \/ CtxBuildAgain
    \/ CtxPrompt

CtxSpec == CtxInit /\ [][CtxNext]_vars

\* ====================================================== retry_with_backoff
\* backend/error_handler.py 15-56 (a coroutine taking the operation and the
\* three settings) and utils/supabase_client.py 45-92 (a decorator with the
\* same loop).  Delays are in milliseconds.  The operation is any callable:
\* each call either returns or raises, and call k raises exception k.

\* largest max_attempts drawn
MaxAttempts == 4

\* the argument is not passed
Omitted == 0

\* config.py 157-159, and the parameter defaults of supabase_client.py 46-48
max_retry_attempts == 3
base_retry_delay == 1000
max_retry_delay == 10000

\* supabase_client.py 49: the default, which its one use (line 176) keeps
exponential_base == 2

RetryVariants == {"error_handler", "supabase_client"}

\* error_handler.py 36-38 `x or settings.x`; supabase_client.py 45-49
\* parameter defaults
OrDefault(x, default) == IF x = Omitted THEN default ELSE x

MinOf(a, b) == IF a < b THEN a ELSE b

\* error_handler.py 51, supabase_client.py 71
BackoffDelay(base_delay, max_delay, attempt) ==
    MinOf(base_delay * (exponential_base ^ attempt), max_delay)

RetryArgs ==
    [variant : RetryVariants,
     max_attempts : {Omitted} \cup 1..MaxAttempts,
     base_delay : {Omitted, 100, 4000},
     max_delay : {Omitted, 5000}]

\* the loop is about to make its first call
RetryStart(args) ==
    [pc |-> "call", args |-> args,
     max_attempts |-> OrDefault(args.max_attempts, max_retry_attempts),
     base_delay |-> OrDefault(args.base_delay, base_retry_delay),
     max_delay |-> OrDefault(args.max_delay, max_retry_delay),
     attempt |-> 0, calls |-> 0, last_exception |-> 0, slept |-> << >>,
     result |-> 0, raised |-> 0]

RetryInit ==
    /\ BridgeIdle
    /\ save_accepts_kwargs = TRUE
    /\ req_user = "u1"
    /\ req_jwt = NoJwt
    /\ CURRENT_USER_ID = NoJwt
    /\ CURRENT_USER_JWT = NoJwt
    /\ creq = << >>
    /\ ctx = CtxOff
    /\ cache = CacheOff
    /\ \E args \in RetryArgs : retry = RetryStart(args)

notRetryVars == << reqVars, drvVars, event_queue, wrkVars, envVars,
                   save_accepts_kwargs, req_user, req_jwt, creq, ctx, cache >>

\* the call returns: `return await func()` (error_handler.py 45,
\* supabase_client.py 66)
RetryCallReturns ==
    /\ retry.pc = "call"
    /\ retry' = [retry EXCEPT !.pc = "returned",
                              !.calls = @ + 1,
                              !.result = retry.calls + 1]
    /\ UNCHANGED notRetryVars

\* variant of RetryCallRaises: the delay is slept after the last attempt too
RetryCallRaisesSleepsAlways ==
    /\ retry.pc = "call"
    /\ retry' = [retry EXCEPT
                    !.pc = "sleep",
                    !.calls = @ + 1,
                    !.last_exception = retry.calls + 1,
                    !.slept = Append(@, BackoffDelay(retry.base_delay, retry.max_delay,
                                                     retry.attempt))]
    /\ UNCHANGED notRetryVars

\* the call raises (error_handler.py 46-53, supabase_client.py 67-83): the
\* exception is kept; before the last attempt the delay is computed and the
\* sleep begins, after the last attempt the loop ends and the exception
\* kept is raised (error_handler.py 55-56, supabase_client.py 85-87)
RetryCallRaises ==
    /\ retry.pc = "call"
    /\ retry' =
          IF retry.attempt < retry.max_attempts - 1
          THEN [retry EXCEPT
                  !.pc = "sleep",
                  !.calls = @ + 1,
                  !.last_exception = retry.calls + 1,
                  !.slept = Append(@, BackoffDelay(retry.base_delay, retry.max_delay,
                                                   retry.attempt))]
          ELSE [retry EXCEPT
                  !.pc = "raised",
                  !.calls = @ + 1,
                  !.last_exception = retry.calls + 1,
                  !.raised = retry.calls + 1]
    /\ UNCHANGED notRetryVars

\* the sleep is over and the loop goes to its next attempt
RetryWake ==
    /\ retry.pc = "sleep"
    /\ retry' = IF retry.attempt + 1 < retry.max_attempts
                THEN [retry EXCEPT !.pc = "call", !.attempt = @ + 1]
                ELSE [retry EXCEPT !.pc = "raised", !.attempt = @ + 1,
                                   !.raised = retry.last_exception]
    /\ UNCHANGED notRetryVars

RetryNext ==
    \/ RetryCallReturns
    \/ RetryCallRaises
    \/ RetryWake

\* the operation returns or raises, and the sleep ends
RetrySpec == RetryInit /\ [][RetryNext]_vars /\ WF_vars(RetryNext)

\* ============================================ utils/supabase_cache.py
\* SupabaseCache: every public method runs under self._lock, so a method is
\* one step.  A key stands for the md5 digest of user id, table and query
\* parameters (lines 67-84); distinct pairs have distinct keys.  The clock
\* is datetime.now() in ticks.

\* largest max_size drawn, and the last tick of the clock
MaxCacheSize == 2
MaxClock == 2

CacheUsers == {"u1", "u2"}
CacheTables == {"contacts", "invoices"}
CacheKeys == CacheUsers \X CacheTables
NoKey == << "None", "None" >>

\* the ttl arguments drawn, in ticks
CacheTtls == {1, 3}

\* lines 23-28
CacheEntry(now, ttl_seconds, user_id, table) ==
    [created_at |-> now, expires_at |-> now + ttl_seconds,
     user_id |-> user_id, table |-> table]

\* lines 30-32
is_expired(entry, now) == now > entry.expires_at

\* dict without some keys
Without(entries, keys) == [k \in (DOMAIN entries) \ keys |-> entries[k]]

\* lines 53-65: an empty cache.  The field `last` is the method called last
\* and what it returned (a count, or for get whether data was returned);
\* `evicted` is the key _evict_oldest deleted last.
CacheInit ==
    /\ BridgeIdle
    /\ save_accepts_kwargs = TRUE
    /\ req_user = "u1"
    /\ req_jwt = NoJwt
    /\ CURRENT_USER_ID = NoJwt
    /\ CURRENT_USER_JWT = NoJwt
    /\ creq = << >>
    /\ ctx = CtxOff
    /\ retry = RetryOff
    /\ \E max_size \in 1..MaxCacheSize :
         cache = [pc |-> "on", _max_size |-> max_size, now |-> 0,
                  _cache |-> << >>, evicted |-> NoKey,
                  last |-> << "__init__", 0 >>]

notCacheVars == << reqVars, drvVars, event_queue, wrkVars, envVars,
                   save_accepts_kwargs, req_user, req_jwt, creq, ctx, retry >>

\* lines 189-201: the keys _evict_oldest may delete, those of the least
\* created_at (min takes the first of them in dict order)
OldestKeys(entries) ==
    { k \in DOMAIN entries : \A j \in DOMAIN entries :
                                entries[k].created_at <= entries[j].created_at }

\* variant of CacheSet: eviction begins above max_size
CacheSetEvictsAboveMax ==
    /\ cache.pc = "on"
    /\ \E user_id \in CacheUsers, table \in CacheTables, ttl \in CacheTtls :
         LET key == << user_id, table >>
             entry == CacheEntry(cache.now, ttl, user_id, table)
         IN  IF Cardinality(DOMAIN cache._cache) > cache._max_size
             THEN \E oldest_key \in OldestKeys(cache._cache) :
                    cache' = [cache EXCEPT
                                !._cache = [k \in ((DOMAIN cache._cache) \ {oldest_key})
                                                    \cup {key} |->
                                              IF k = key THEN entry ELSE cache._cache[k]],
                                !.evicted = oldest_key,
                                !.last = << "set", 0 >>]
             ELSE cache' = [cache EXCEPT
                              !._cache = [k \in (DOMAIN cache._cache) \cup {key} |->
                                            IF k = key THEN entry ELSE cache._cache[k]],
                              !.last = << "set", 0 >>]
    /\ UNCHANGED notCacheVars

\* lines 113-140: set, with the eviction of 189-201 when the cache is full
CacheSet ==
    /\ cache.pc = "on"
    /\ \E user_id \in CacheUsers, table \in CacheTables, ttl \in CacheTtls :
         LET key == << user_id, table >>
             entry == CacheEntry(cache.now, ttl, user_id, table)
         IN  IF Cardinality(DOMAIN cache._cache) >= cache._max_size
             THEN \E oldest_key \in OldestKeys(cache._cache) :
                    cache' = [cache EXCEPT
                                !._cache = [k \in ((DOMAIN cache._cache) \ {oldest_key})
                                                    \cup {key} |->
                                              IF k = key THEN entry ELSE cache._cache[k]],
                                !.evicted = oldest_key,
                                !.last = << "set", 0 >>]
             ELSE cache' = [cache EXCEPT
                              !._cache = [k \in (DOMAIN cache._cache) \cup {key} |->
                                            IF k = key THEN entry ELSE cache._cache[k]],
                              !.last = << "set", 0 >>]
    /\ UNCHANGED notCacheVars

\* lines 86-111: get returns None for a key it does not hold, deletes an
\* entry it finds expired and returns None, and else returns the data
CacheGet ==
    /\ cache.pc = "on"
    /\ \E key \in CacheKeys :
         IF key \notin DOMAIN cache._cache
         THEN cache' = [cache EXCEPT !.last = << "get", 0 >>]
         ELSE IF is_expired(cache._cache[key], cache.now)
         THEN cache' = [cache EXCEPT !._cache = Without(cache._cache, {key}),
                                     !.last = << "get", 0 >>]
         ELSE cache' = [cache EXCEPT !.last = << "get", 1 >>]
    /\ UNCHANGED notCacheVars

\* lines 142-163
CacheInvalidateUser ==
    /\ cache.pc = "on"
    /\ \E user_id \in CacheUsers :
         LET keys_to_remove == { k \in DOMAIN cache._cache :
                                   cache._cache[k].user_id = user_id }
         IN  cache' = [cache EXCEPT !._cache = Without(cache._cache, keys_to_remove),
                                    !.last = << "invalidate_user",
                                                Cardinality(keys_to_remove) >>]
    /\ UNCHANGED notCacheVars

\* lines 165-187
CacheInvalidateTable ==
    /\ cache.pc = "on"
    /\ \E user_id \in CacheUsers, table \in CacheTables :
         LET keys_to_remove == { k \in DOMAIN cache._cache :
                                   /\ cache._cache[k].user_id = user_id
                                   /\ cache._cache[k].table = table }
         IN  cache' = [cache EXCEPT !._cache = Without(cache._cache, keys_to_remove),
                                    !.last = << "invalidate_table",
                                                Cardinality(keys_to_remove) >>]
    /\ UNCHANGED notCacheVars

\* lines 203-221
CacheCleanupExpired ==
    /\ cache.pc = "on"
    /\ LET expired_keys == { k \in DOMAIN cache._cache :
                               is_expired(cache._cache[k], cache.now) }
       IN  cache' = [cache EXCEPT !._cache = Without(cache._cache, expired_keys),
                                  !.last = << "cleanup_expired",
                                              Cardinality(expired_keys) >>]
    /\ UNCHANGED notCacheVars

\* datetime.now() moves on
CacheTick ==
    /\ cache.pc = "on"
    /\ cache.now < MaxClock
    /\ cache' = [cache EXCEPT !.now = @ + 1]
    /\ UNCHANGED notCacheVars

CacheNext ==
    \/ CacheSet
    \/ CacheGet
    \/ CacheInvalidateUser
    \/ CacheInvalidateTable
    \/ CacheCleanupExpired
    \/ CacheTick

CacheSpec == CacheInit /\ [][CacheNext]_vars

\* ------------------------------------------------------- derived notions
IsTerminal(c) == c.type \in {"complete", "error"}

TerminalPositions(chunks) == { i \in 1..Len(chunks) : IsTerminal(chunks[i]) }

TokenPositions(chunks) == { i \in 1..Len(chunks) : chunks[i].type = "token" }

\* the fragments of a sequence of queue events, in order
RECURSIVE FragmentsOf(_)
FragmentsOf(evs) ==
    IF evs = <<>> THEN <<>>
    ELSE (IF Head(evs).type = "token" THEN << Head(evs).data >> ELSE <<>>)
         \o FragmentsOf(Tail(evs))

IsPrefix(s, t) == Len(s) <= Len(t) /\ \A i \in 1..Len(s) : s[i] = t[i]

HasToolEvent(evs) == \E i \in 1..Len(evs) : evs[i].type = "tool_start"

CeilDiv(n, d) == (n + d - 1) \div d

\* the consumer read the stream to its end
StreamEnded == spc = "closed"

\* ---------------------------------------------------------------- C1
\* C1: a stream read to the end carries exactly one terminal chunk (complete
\* or error, never both), at no point does a stream carry more than one, and
\* a terminal chunk is the last chunk of the stream.
C1_SingleTerminalChunk ==
    /\ Cardinality(TerminalPositions(out)) <= 1
    /\ \A i \in TerminalPositions(out) : i = Len(out)
    /\ StreamEnded => Cardinality(TerminalPositions(out)) = 1
    /\ TerminalPositions(out) # {} => spc = "closed"

\* a stream that failed after partial tokens, read to its end
C1_Witness ==
    /\ StreamEnded
    /\ Len(out) >= 2
    /\ out[1].type = "token"
    /\ out[Len(out)].type = "error"
    /\ agent_error # NoError

\* ---------------------------------------------------------------- C2
\* C2: the token chunks emitted so far, concatenated, are the fragments the
\* worker pushed, in push order: while the driver consumes, emitted ++ buffered
\* ++ queued fragments is exactly the pushed sequence; what was emitted is
\* always a prefix of it; a stream that completed carries all of it; and no
\* token chunk follows a terminal chunk.
C2_TokensInPushOrder ==
    /\ IsPrefix(TokenContent(out), FragmentsOf(pushed))
    /\ dpc = "loop" =>
         TokenContent(out) \o token_buffer \o FragmentsOf(event_queue) = FragmentsOf(pushed)
    /\ (out # <<>> /\ out[Len(out)].type = "complete") =>
         TokenContent(out) = FragmentsOf(pushed)
    /\ \A i \in TerminalPositions(out) : \A j \in TokenPositions(out) : j < i

\* two token chunks around a time-triggered flush, then the terminal chunk
C2_Witness ==
    /\ StreamEnded
    /\ Cardinality(TokenPositions(out)) >= 2
    /\ Len(TokenContent(out)) >= 3
    /\ HasToolEvent(pushed)

\* ---------------------------------------------------------------- C3
\* C3: N fragments followed by done, consumed without an expired batch window,
\* without a poll timeout on pending tokens and without a tool event, give
\* ceil(N / TOKEN_BATCH_MAX_SIZE) token chunks whose concatenation is the N
\* fragments, each exactly once.
C3_BatchCount ==
    (dpc \in {"join", "returned"} /\ ~window_expired /\ ~HasToolEvent(pushed)) =>
        LET N == Len(FragmentsOf(pushed))
        IN  /\ Cardinality(TokenPositions(out)) = CeilDiv(N, TOKEN_BATCH_MAX_SIZE)
            /\ TokenContent(out) = [k \in 1..N |-> Fragment(k)]

\* six fragments in two chunks, the first one full
C3_Witness ==
    /\ dpc = "returned" /\ ~window_expired
    /\ Len(FragmentsOf(pushed)) = TOKEN_BATCH_MAX_SIZE + 1
    /\ Cardinality(TokenPositions(out)) = 2
    /\ Len(out[1].content) = TOKEN_BATCH_MAX_SIZE

\* ---------------------------------------------------------------- C4
ToolStartPositions(chunks) == { i \in 1..Len(chunks) : chunks[i].type = "tool_start" }

ErrorEventConsumed ==
    /\ agent_error # NoError
    /\ wpc \in {"finally", "exited"}
    /\ event_queue = <<>>

\* C5: when the agent call raised and the stream was read to its end, the
\* last chunk is an error chunk and there is no complete chunk; when the
\* driver handled the error event, nothing is left in the token buffer and
\* every fragment pushed before the failure was emitted before the error
\* chunk; and once the driver has raised it takes no event off the queue and
\* the stream gets no further chunk.
C5_ErrorEndsStream ==
    /\ [](/\ (agent_error # NoError /\ StreamEnded) =>
               /\ out[Len(out)].type = "error"
               /\ \A i \in 1..Len(out) : out[i].type # "complete"
          /\ (ErrorEventConsumed /\ StreamEnded) =>
               /\ token_buffer = <<>>
               /\ TokenContent(out) = FragmentsOf(pushed))
    /\ [][dpc = "raised" =>
            /\ dpc' = "raised"
            /\ out' = out
            /\ Len(event_queue') >= Len(event_queue)]_vars

\* the agent raised after two fragments that were still buffered
C5_Witness ==
    /\ ErrorEventConsumed /\ StreamEnded
    /\ dpc = "raised"
    /\ Len(out) = 2
    /\ out[1].type = "token" /\ Len(out[1].content) = 2
    /\ out[2].type = "error"

\* ---------------------------------------------------------------- C6
\* C6: when the agent call returned (the worker pushed done) and the stream
\* was read to its end, the last chunk is a complete chunk.
C6_DoneEndsWithComplete ==
    (wpc \in {"finally", "exited"} /\ agent_error = NoError /\ StreamEnded) =>
        out[Len(out)].type = "complete"

\* ---------------------------------------------------------------- C8
\* C8: the step in which the consumer disconnects and every step after it
\* emit no chunk, the driver takes nothing more off the queue, and the
\* cancellation reaches stream_chat_response (the driver is never left
\* cancelled under a request that goes on).
C8_CancelEmitsNothing ==
    /\ [][(spc' = "cancelled") =>
            /\ out' = out
            /\ full_response' = full_response
            /\ saved' = saved
            /\ Len(event_queue') >= Len(event_queue)]_vars
    /\ [](dpc = "cancelled" => spc = "cancelled")
    /\ [][spc = "cancelled" => spc' = "cancelled"]_vars

\* cancelled while tokens were pending; the worker ran to completion and its
\* events stay in the queue
C8_Witness ==
    /\ spc = "cancelled" /\ dpc = "cancelled"
    /\ wpc = "exited"
    /\ token_buffer # <<>>
    /\ Len(event_queue) >= 2
    /\ out # <<>>

\* ---------------------------------------------------------------- C10
TerminalEvents(evs) == { i \in 1..Len(evs) : evs[i].type \in {"done", "error"} }

\* C10: a worker that runs has put no terminal event yet; a worker past the
\* agent call has put exactly one, as its last event: done when the call
\* returned, error when it raised.
C10_OneTerminalEvent ==
    /\ Cardinality(TerminalEvents(pushed)) <= 1
    /\ wpc \in {"not_started", "running"} => TerminalEvents(pushed) = {}
    /\ wpc \in {"finally", "exited"} =>
         /\ TerminalEvents(pushed) = {Len(pushed)}
         /\ pushed[Len(pushed)].type = (IF agent_error = NoError THEN "done" ELSE "error")

\* the agent raised after it had pushed fragments
C10_Witness ==
    /\ wpc = "exited"
    /\ agent_error # NoError
    /\ Len(FragmentsOf(pushed)) >= 2
    /\ pushed[Len(pushed)].type = "error"

\* ---------------------------------------------------------------- C7
\* C7: with the task and the worker scheduled fairly and a consumer that
\* keeps reading, every request comes to emit its terminal chunk and the
\* driver leaves its polling loop.
C7_StreamTerminates ==
    <>(/\ StreamEnded
       /\ TerminalPositions(out) # {}
       /\ dpc \in {"not_started", "returned", "raised"})

\* a stream that ended with complete after the driver had polled an idle
\* queue until the pending tokens were flushed by a timeout
C7_Witness ==
    /\ StreamEnded
    /\ dpc = "returned"
    /\ window_expired
    /\ out[Len(out)].type = "complete"
    /\ Len(out) >= 3

\* ---------------------------------------------------------------- C9
\* C9: while a request is in flight the process environment holds the user
\* id and the JWT that this request published, and what a tool of its worker
\* reads through get_user_context is this request's own user id and JWT.
C9_NoSharedUserContext ==
    \A r \in DOMAIN creq :
        creq[r].pc = "running" =>
            /\ get_user_context = << creq[r].user_id, creq[r].jwt_token >>
            /\ creq[r].reads > 0 =>
                 creq[r].tool_saw = << creq[r].user_id, creq[r].jwt_token >>

\* ---------------------------------------------------------------- C11
\* C11: when the driver takes a tool_start, error or done event from the
\* queue while the token buffer holds fragments, the step first emits the
\* whole buffer as one token chunk, every chunk it emits after that one is
\* not a token chunk, and the buffer is empty afterwards; so no fragment
\* consumed before the boundary event can follow that event's chunk.
C11_FlushBeforeBoundary ==
    [][ ( /\ event_queue # <<>>
          /\ Head(event_queue).type # "token"
          /\ event_queue' = Tail(event_queue)
          /\ token_buffer # <<>> )
        => /\ Len(out') > Len(out)
           /\ SubSeq(out', 1, Len(out)) = out
           /\ out'[Len(out) + 1] = StreamChunk("token", token_buffer, NoError)
           /\ \A i \in (Len(out) + 2)..Len(out') : out'[i].type # "token"
           /\ token_buffer' = <<>>
           /\ TokenContent(out') \o FragmentsOf(event_queue') = FragmentsOf(pushed) ]_vars

\* a stream in which no batch window ever elapsed and whose error chunk
\* follows a token chunk of fewer than TOKEN_BATCH_MAX_SIZE fragments: the
\* chunk of the flush made on a tool_start or error event
C11_Witness ==
    /\ dpc = "raised"
    /\ ~window_expired
    /\ Len(out) >= 2
    /\ out[Len(out) - 1].type = "token"
    /\ Len(out[Len(out) - 1].content) < TOKEN_BATCH_MAX_SIZE
    /\ out[Len(out)].type = "error"

AssistantTurns == { i \in 1..Len(saved) : saved[i].role = "assistant" }

EndedInError == StreamEnded /\ out # <<>> /\ out[Len(out)].type = "error"

UserMessages ==
    { "Unable to connect to the service. Please check your internet connection and try again.",
      "Authentication failed. Please log in again.",
      "Too many requests. Please wait a moment and try again.",
      "The AI service is temporarily unavailable. Please try again in a moment.",
      "Your message is too long. Please try a shorter message.",
      "Unable to access your data. Please try again.",
      "Invalid input. Please check your message and try again.",
      "An unexpected error occurred. Please try again." }

RawErrorTexts == AgentErrors \cup {TypeErrorText, ValidationErrorText}

\* C14: the error field of every error chunk is one of the fixed messages,
\* and no field of any chunk is the text of an exception.
C14_NoRawErrorText ==
    \A i \in 1..Len(out) :
        /\ out[i].type = "error" => out[i].error \in UserMessages
        /\ out[i].type # "error" => out[i].error = NoError
        /\ out[i].error \notin RawErrorTexts
        /\ \A k \in 1..Len(out[i].content) : out[i].content[k] \in 1..MaxEvents

\* the agent raised "boom" and the stream ended with the generic message
C14_Witness ==
    /\ StreamEnded
    /\ agent_error = "boom"
    /\ ErrorEventConsumed
    /\ out[Len(out)].error = "An unexpected error occurred. Please try again."

\* ------------------------------------------- context manager, derived
\* the history a build_context call works on, after the load of lines 74-79
CtxWorkingHistory ==
    IF ctx.request.history # << >> THEN ctx.request.history
    ELSE IF ctx.request.load_ok THEN ctx.request.stored
    ELSE << >>

SummaryPositions(messages) ==
    { i \in 1..Len(messages) : messages[i].metadata.is_summary \/ messages[i].id = "summary" }

\* the last PRESERVE_RECENT_MESSAGES turns of a history longer than that
LastTurns(messages) ==
    [i \in 1..PRESERVE_RECENT_MESSAGES |->
        messages[Len(messages) - PRESERVE_RECENT_MESSAGES + i]]

\* an assistant turn before the last PRESERVE_RECENT_MESSAGES has a
\* toolCalls entry that is no dict
MalformedOld(messages) ==
    \E i \in 1..(Len(messages) - PRESERVE_RECENT_MESSAGES) :
        /\ messages[i].role = "assistant"
        /\ \E k \in DOMAIN messages[i].metadata.toolCalls :
               messages[i].metadata.toolCalls[k] = NotADict

\* floor(floor(totalChars / 4) * 1.2), as exact arithmetic
BufferedEstimate(messages) == (6 * (TotalChars(messages) \div 4)) \div 5

\* summary first, then the last turns unchanged, and no other summary
SummaryThenLastTurns(result, messages) ==
    /\ Len(result) = PRESERVE_RECENT_MESSAGES + 1
    /\ result[1].id = "summary"
    /\ result[1].metadata.is_summary
    /\ SummaryPositions(result) = {1}
    /\ \A i \in 1..PRESERVE_RECENT_MESSAGES :
           /\ result[i + 1].id = LastTurns(messages)[i].id
           /\ result[i + 1].content = LastTurns(messages)[i].content
           /\ result[i + 1] = LastTurns(messages)[i]

C16_SummaryOnlyOverLimit ==
    ctx.pc \in {"built", "rebuilt"} =>
        LET over == BufferedEstimate(CtxWorkingHistory) > token_limit
            long == Len(CtxWorkingHistory) > PRESERVE_RECENT_MESSAGES
        IN  /\ SummaryPositions(ctx.used) # {} => (over /\ long)
            /\ ~(over /\ long) => ctx.used = CtxWorkingHistory

\* a build that summarized, and whose history the request carried
C16_Witness ==
    /\ ctx.pc = "built"
    /\ ctx.request.history # << >>
    /\ SummaryPositions(ctx.used) = {1}
    /\ Len(ctx.used) = PRESERVE_RECENT_MESSAGES + 1

\* ---------------------------------------------------------------- C17
\* C17: the estimate of the turns that build_context puts into the context
\* does not exceed token_limit.
C17_ContextWithinLimit ==
    ctx.pc \in {"built", "rebuilt"} => BufferedEstimate(ctx.used) <= token_limit

\* ---------------------------------------------------------------- C18
\* C18: _exceeds_token_limit is true exactly when the history is not empty
\* and floor(floor(totalChars / 4) * 1.2) is greater than token_limit; an
\* estimate equal to the limit is not over it.
C18_ExceedsExactlyAboveLimit ==
    ctx.pc = "checked" =>
        /\ ctx.exceeds <=> (BufferedEstimate(ctx.history) > token_limit)
        /\ ctx.exceeds <=> (TotalChars(ctx.history) >= 1000004)
        /\ BufferedEstimate(ctx.history) = token_limit => ~ctx.exceeds
        /\ ctx.history = << >> => ~ctx.exceeds

\* the estimate of the history checked is the limit itself
C18_Witness ==
    /\ ctx.pc = "checked"
    /\ ctx.history # << >>
    /\ BufferedEstimate(ctx.history) = token_limit
    /\ ~ctx.exceeds

\* ---------------------------------------------------------------- C19
\* the load of the history failed
CtxLoadFailed == ctx.request.history = << >> /\ ~ctx.request.load_ok

\* summarizing was tried and raised
CtxSummarizeFailed ==
    /\ BufferedEstimate(CtxWorkingHistory) > token_limit
    /\ Len(CtxWorkingHistory) > PRESERVE_RECENT_MESSAGES
    /\ MalformedOld(CtxWorkingHistory)

C20_SameContextTwice ==
    ctx.pc = "rebuilt" => ctx.context2 = ctx.context

\* ---------------------------------------------------------------- C21
\* the pieces of one "<Role>: <content>" line for each turn, each after a
\* line break
RECURSIVE TurnLines(_)
TurnLines(turns) ==
    IF turns = << >> THEN << >>
    ELSE << "\n", IF Head(turns).role = "user" THEN "User: " ELSE "Assistant: " >>
         \o Head(turns).content.text \o TurnLines(Tail(turns))

ProfileText == << "User ID: ", "u1", "\nBusiness Type: Painting Contractor" >>

\* C21: the string build_context returns is the profile text when the
\* profile is included, then, when turns are used, "Previous conversation:"
\* and one "<Role>: <content>" line for each turn in order, Role being
\* "User" for a user turn and "Assistant" otherwise, the parts separated by
\* line breaks; without turns and without profile it is the empty string.
C21_ContextFormat ==
    ctx.pc = "built" =>
        LET profile == ctx.request.include_user_profile
            turns == ctx.used
        IN  /\ ctx.context.text =
                   (IF profile THEN ProfileText ELSE << >>)
                   \o (IF turns = << >> THEN << >>
                       ELSE (IF profile THEN << "\n" >> ELSE << >>)
                            \o << "Previous conversation:" >> \o TurnLines(turns))
            /\ (turns = << >> /\ ~profile) => ctx.context = EmptyStr
            /\ ~_exceeds_token_limit(CtxWorkingHistory) => turns = CtxWorkingHistory

\* a build with the profile and with user and assistant turns, unsummarized
C21_Witness ==
    /\ ctx.pc = "built"
    /\ ctx.request.include_user_profile
    /\ Len(ctx.used) >= 2
    /\ ctx.used = ctx.history
    /\ ctx.context.text[4] = "\n"
    /\ ctx.context.text[5] = "Previous conversation:"

\* ---------------------------------------------------------------- C22
\* the attempt cap and the delays of a call, from its arguments
RetryCap == IF retry.args.max_attempts = Omitted THEN 3 ELSE retry.args.max_attempts

RetryBase == IF retry.args.base_delay = Omitted THEN 1000 ELSE retry.args.base_delay

RetryMax == IF retry.args.max_delay = Omitted THEN 10000 ELSE retry.args.max_delay

RetryBounded ==
    /\ retry.calls <= RetryCap
    /\ \A k \in 1..Len(retry.slept) :
           /\ RetryBase * 2^(k - 1) <= RetryMax => retry.slept[k] = RetryBase * 2^(k - 1)
           /\ RetryBase * 2^(k - 1) > RetryMax => retry.slept[k] = RetryMax
    /\ Len(retry.slept) <= RetryCap - 1
    /\ retry.pc = "sleep" => Len(retry.slept) = retry.calls
    /\ retry.pc = "call" => Len(retry.slept) = retry.calls
    /\ retry.pc = "returned" =>
           /\ retry.result = retry.calls
           /\ retry.last_exception = retry.calls - 1
           /\ Len(retry.slept) = retry.calls - 1
    /\ retry.pc = "raised" =>
           /\ retry.calls = RetryCap
           /\ retry.raised = RetryCap
           /\ Len(retry.slept) = RetryCap - 1

\* C22: the operation is called max_attempts times at most, a call that
\* returns ends the loop with its result, a wait of
\* min(base_delay * 2^attempt, max_delay) lies between two attempts and
\* none follows the last, when all attempts raise the exception of the last
\* one is raised, and every call of retry_with_backoff comes to an end.
C22_RetryBoundedAndEnds ==
    /\ []RetryBounded
    /\ <>(retry.pc \in {"returned", "raised"})

\* the operation raised once and returned at its second call
C22_Witness ==
    /\ retry.pc = "returned"
    /\ retry.calls = 2
    /\ retry.last_exception = 1
    /\ Len(retry.slept) = 1

\* ---------------------------------------------------------------- C23
CacheSize == Cardinality(DOMAIN cache._cache)

\* C23: the cache never holds more than max_size entries, and a step that
\* stores a key the full cache did not hold removes one entry, one of
\* the least creation time, and leaves max_size entries.
C23_CacheWithinMaxSize ==
    [][ /\ CacheSize <= cache._max_size
        /\ CacheSize' <= cache'._max_size
        /\ \A key \in CacheKeys :
              ( /\ key \notin DOMAIN cache._cache
                /\ key \in DOMAIN cache'._cache
                /\ CacheSize = cache._max_size )
              => /\ CacheSize' = cache._max_size
                 /\ \E oldest \in DOMAIN cache._cache :
                       /\ \A j \in DOMAIN cache._cache :
                             cache._cache[oldest].created_at <= cache._cache[j].created_at
                       /\ DOMAIN cache'._cache =
                             ((DOMAIN cache._cache) \ {oldest}) \cup {key}
                       /\ cache'.evicted = oldest ]_vars

\* a full cache that evicted an entry it no longer holds and holds an
\* entry created later than another
C23_Witness ==
    /\ CacheSize = cache._max_size
    /\ cache._max_size >= 2
    /\ cache.evicted # NoKey
    /\ cache.evicted \notin DOMAIN cache._cache
    /\ \E j, k \in DOMAIN cache._cache :
          cache._cache[j].created_at < cache._cache[k].created_at


\* ---------------------------------------------------------------- C24
\* a token step in which a fragment put less than a batch window ago joins
\* a buffer whose last fragment was put more than a batch window ago: a
\* WindowElapses step lies between the two puts, so the two arrivals are
\* more than TOKEN_BATCH_WINDOW_MS apart, and the two end in one buffer,
\* which Flush joins into one token chunk
LateFragmentJoinsBuffer ==
    /\ spc = "stream" /\ dpc = "loop"
    /\ event_queue # <<>> /\ Head(event_queue).type = "token"
    /\ ~Head(event_queue).old
    /\ token_buffer # <<>> /\ last_token_old
    /\ event_queue' = Tail(event_queue)
    /\ token_buffer' = Append(token_buffer, Head(event_queue).data)

\* C24: two fragments whose arrivals are more than the batch window apart
\* are never coalesced into the same token chunk: no step of the driver adds
\* a fragment to a buffer whose last fragment arrived more than a window
\* before it
C24_NoCoalescingAcrossWindow == [][~LateFragmentJoinsBuffer]_vars


\* ---------------------------------------------------------------- C25
\* the driver acts while it is in its loop with an empty queue, the worker
\* not finished and fragments in the buffer: its poll timed out
PollTimesOutOnBuffer ==
    /\ spc = "stream" /\ dpc = "loop"
    /\ event_queue = <<>> /\ ~streaming_complete
    /\ token_buffer # <<>>
    /\ << dpc, token_buffer, out, full_response >>' # << dpc, token_buffer, out, full_response >>

\* a step takes fragments out of the buffer
BufferLosesFragments == token_buffer # <<>> /\ ~IsPrefix(token_buffer, token_buffer')

\* C25: a poll that times out on a non-empty buffer flushes it in that step
\* (QUEUE_POLL_TIMEOUT is longer than the batch window, so the buffer has
\* always aged past it): the buffer goes out as one token chunk and is empty
\* afterwards; and with a worker that may stay quiet for ever, a non-empty
\* buffer comes to be emptied, without a further event and without filling
\* up, and fragments leave the buffer only in a token chunk emitted in the
\* same step.
C25_TimeoutFlushesBuffer ==
    /\ [][ PollTimesOutOnBuffer =>
             /\ out' = Append(out, TokenChunk(token_buffer))
             /\ token_buffer' = <<>>
             /\ dpc' = dpc ]_vars
    /\ [][ BufferLosesFragments =>
             \E i \in (Len(out) + 1)..Len(out') :
                 /\ out'[i].type = "token"
                 /\ IsPrefix(token_buffer, out'[i].content) ]_vars
    /\ (token_buffer # <<>>) ~> (token_buffer = <<>>)

\* a poll timeout flushed a buffer of fewer than TOKEN_BATCH_MAX_SIZE
\* fragments while the worker, still running, had put nothing else
C25_Witness ==
    /\ timed_out
    /\ dpc = "loop" /\ wpc = "running" /\ ~streaming_complete
    /\ event_queue = <<>> /\ token_buffer = <<>>
    /\ Len(out) = 1 /\ out[1].type = "token"
    /\ Len(out[1].content) = 2
    /\ FragmentsOf(pushed) = out[1].content
    /\ Len(pushed) = 2


\* ---------------------------------------------------------------- C26
\* the contents of the user turns of `older`, at most 200 characters of each
UserContents200(older) ==
    LET users == { i \in 1..Len(older) : older[i].role = "user" }
    IN  { Prefix200(older[i].content) : i \in users }

\* what an entry of the "User asked about" list shows of the turn's content
ListedContent(item) ==
    IF item.len > 200 THEN [text |-> SubSeq(item.text, 1, Len(item.text) - 1), len |-> 200]
    ELSE item

\* C26: the content of the summary turn is determined by the older turns
\* only, whatever process computes it; it lists at most 5 user-turn
\* contents, at most 200 characters of each, and at most 5 actions, no
\* action twice.
C26_SummaryFromOlderTurns ==
    ( /\ ctx.pc = "summarized"
      /\ Len(ctx.history) > PRESERVE_RECENT_MESSAGES
      /\ ~MalformedOld(ctx.history) )
    => LET older == OldMessages(ctx.history)
           listed == First5(UserRequests(older))
           actions == First5(AgentActions(older))
       IN  /\ ctx.summarized[1].id = "summary"
           /\ \A hash_seed \in HashSeeds :
                  ctx.summarized[1].content = SummaryContent(older, hash_seed)
           /\ Len(listed) <= 5
           /\ \A i \in 1..Len(listed) : ListedContent(listed[i]) \in UserContents200(older)
           /\ Cardinality(Range(actions)) <= 5


\* ---------------------------------------------------------------- C27
\* C27: a failure to persist a message does not abort the stream: every
\* request whose stream ends with a terminal chunk has built its context and
\* invoked the agent, and the terminal chunk is the one of the driver's
\* outcome (complete after the driver returned, error after it raised).
C27_SaveFailureDoesNotAbort ==
    (StreamEnded /\ TerminalPositions(out) # {}) =>
        /\ dpc \in {"returned", "raised"}
        /\ wpc # "not_started"
        /\ out[Len(out)].type = (IF dpc = "returned" THEN "complete" ELSE "error")


\* ---------------------------------------------------------------- C28
\* the driver leaves its polling loop in this step
LoopExits == dpc = "loop" /\ dpc' # "loop"

\* the step takes a terminal event off the queue
ConsumesTerminalEvent ==
    /\ event_queue # <<>>
    /\ Head(event_queue).type \in {"done", "error"}
    /\ event_queue' = Tail(event_queue)

\* C28: with a consumer that keeps reading, under every interleaving of
\* worker and driver the loop is left only by the step that consumes `done`
\* or `error` (never through the loop condition, never with an event
\* unconsumed), and once it is left no fragment is unread in the queue or
\* unflushed in the buffer.
C28_LoopEndsOnTerminalEvent ==
    /\ [][LoopExits => ConsumesTerminalEvent]_vars
    /\ [](dpc \in {"join", "returned", "raised"} =>
            /\ FragmentsOf(event_queue) = <<>>
            /\ token_buffer = <<>>)


\* ---------------------------------------------------------------- C29
\* C29: the content of a persisted assistant turn is the concatenation, in
\* order, of the contents of all token chunks sent to the client, which is
\* the concatenation of all fragments the worker pushed; and when no token
\* chunk was sent no assistant turn is persisted.
C29_SavedIsWhatWasStreamed ==
    /\ \A i \in AssistantTurns :
           /\ saved[i].content = Join(TokenChunksOf(out))
           /\ saved[i].content = TokenContent(out)
           /\ saved[i].content = FragmentsOf(pushed)
    /\ TokenPositions(out) = {} => AssistantTurns = {}

\* a persisted assistant turn of three fragments that reached the client in
\* two token chunks
C29_Witness ==
    /\ StreamEnded
    /\ AssistantTurns # {}
    /\ Cardinality(TokenPositions(out)) = 2
    /\ Len(saved[Len(saved)].content) = 3
    /\ out[Len(out)].type = "complete"


\* ---------------------------------------------------------------- C30
\* the places of request.message in the prompt
MessagePositions(prompt) ==
    { i \in 1..Len(prompt.text) : prompt.text[i] = NewMessage.text[1] }

====
